---- MODULE Spec2Model ----
(***************************************************************************)
(* Model of the naima/gammafit glue code:                                  *)
(*   - gammafit/sherpamod.py : _mergex, InverseCompton.guess / .calc       *)
(*   - examples/CrabNebula_IC_We.py : ElectronIC and the driver sequence   *)
(*                                                                         *)
(* The radiative models, the unit system, the sampler and the fitting      *)
(* framework are external libraries.  Their results are kept as symbolic   *)
(* terms (records naming the call and its arguments); each call into them  *)
(* may raise.  The modelCacher1d decorator of calc is external and is      *)
(* treated as transparent.  sherpamod.py is Python 2 source (the print     *)
(* statement at line 99) and is read with Python 2 semantics.              *)
(*                                                                         *)
(* The two source files are independent programs; `prog` says which one a  *)
(* behaviour runs ("mergex" exercises the pure helper _mergex alone).      *)
(***************************************************************************)
EXTENDS Integers, Sequences, FiniteSets, TLC

\* ------------------------------------------------------------------ bounds
\* _mergex inputs: at most MaxBins bins, edges 2,4,..,2*MaxEdge (unit 0.5 keV,
\* so that the midpoints (xlo+xhi)/2 are integers)
MaxBins == 2
MaxEdge == 4
\* calc / guess inputs: at most MaxLen energies drawn from 1..MaxE (keV)
MaxLen == 2
MaxE == 2
\* cutoff, uFIR and uNIR range over 0..MaxPar
MaxPar == 1
\* ElectronIC: log10 parameters range over 0..MaxLog
MaxLog == 2
\* model evaluations the sampler makes in one run_sampler call
MaxEvals == 2

VARIABLES
  prog,
  \* ---- _mergex applied to one input
  m_xlo, m_xhi, m_mid, m_out,
  \* ---- InverseCompton object (sherpamod.py)
  pars,                           \* the ten Parameter values
  g_pc, g_dep, g_xlo, g_xhi,      \* guess: position and arguments
  g_modflux,                      \* guess: local modflux
  pc, caller, c_p, c_x, c_xhi,    \* calc: position, caller, arguments
  outspec, built, pdist, seedspec, ic, model, photons,   \* calc locals
  ret, raised, printed,           \* calc: return value, exception, stdout
  \* ---- driver script (CrabNebula_IC_We.py)
  s_pc, sampler, files, log, evals,
  e_pc, e_pars, We, alpha, e_cutoff, ECPL, IC, e_model, e_ret, e_raised

mvars == <<m_xlo, m_xhi, m_mid, m_out>>
gvars == <<g_pc, g_dep, g_xlo, g_xhi, g_modflux>>
cvars == <<pc, caller, c_p, c_x, c_xhi, outspec, built, pdist, seedspec, ic,
           model, photons, ret, raised, printed>>
avars == <<pars, gvars, cvars>>
evars == <<e_pc, e_pars, We, alpha, e_cutoff, ECPL, IC, e_model, e_ret, e_raised>>
svars == <<s_pc, sampler, files, log, evals, evars>>
vars == <<prog, mvars, avars, svars>>

\* Python's None, and a numpy array
None == [none |-> TRUE]
Arr(s) == [arr |-> s]
\* a Python list, and a tuple
List(s) == [list |-> s]
Tuple(s) == [tuple |-> s]

\* all arrays of length n over S, and of length 1..n
ArraysOfLen(S, n) == [1..n -> S]
Arrays(S, n) == UNION {ArraysOfLen(S, k) : k \in 1..n}

\* ------------------------------------------------------------- _mergex
EdgeVals == {2 * k : k \in 1..MaxEdge}

\* a plausible slip: the first upper edge instead of the last
MergexFirstHi(xlo, xhi, midpoints) ==
  LET N == Len(xlo)
  IN [i \in 1..(N + 1) |-> IF i <= N THEN xlo[i] ELSE xhi[1]]

\* _mergex(xlo, xhi, midpoints=False)
Mergex(xlo, xhi, midpoints) ==
  LET N == Len(xlo)
      zeros == [i \in 1..(N + 1) |-> 0]
      lows == [i \in 1..(N + 1) |-> IF i <= N THEN xlo[i] ELSE zeros[i]]
      x == [lows EXCEPT ![N + 1] = xhi[Len(xhi)]]
      mid == [i \in 1..N |-> (xlo[i] + xhi[i]) \div 2]
  IN IF midpoints
       THEN SortSeq(x \o mid, LAMBDA a, b : a < b)
       ELSE x

InitMergex ==
  /\ \E n \in 1..MaxBins :
       /\ m_xlo \in ArraysOfLen(EdgeVals, n)
       /\ m_xhi \in ArraysOfLen(EdgeVals, n)
  /\ m_mid \in BOOLEAN
  /\ m_out = None

ApplyMergex ==
  /\ prog = "mergex"
  /\ m_out = None
  /\ m_out' = Arr(Mergex(m_xlo, m_xhi, m_mid))
  /\ UNCHANGED <<prog, m_xlo, m_xhi, m_mid, avars, svars>>

\* ------------------------------------------------- InverseCompton object
\* the parameters in the order ArithmeticModel.__init__ receives them
ParNames == <<"index", "ref", "ampl", "cutoff", "beta",
              "TFIR", "uFIR", "TNIR", "uNIR", "verbose">>

\* InverseCompton.__init__: the Parameter defaults
Defaults ==
  [index |-> 2, ref |-> 20, ampl |-> 1, cutoff |-> 0, beta |-> 1,
   TFIR |-> 70, uFIR |-> 0, TNIR |-> 3800, uNIR |-> 0, verbose |-> 0]

\* values the fitting framework may give a parameter (all within its min/max)
ParDomain(name) ==
  CASE name \in {"cutoff", "uFIR", "uNIR"} -> 0..MaxPar
    [] name = "ampl" -> {1, 2}
    [] name = "verbose" -> {0, 1}
    [] OTHER -> {Defaults[name]}

\* [p.val for p in self.pars]
ParVector(ps) == [i \in 1..Len(ParNames) |-> ps[ParNames[i]]]

\* index,ref,ampl,cutoff,beta,TFIR,uFIR,TNIR,uNIR,verbose = p
Unpack(p) ==
  [index |-> p[1], ref |-> p[2], ampl |-> p[3], cutoff |-> p[4], beta |-> p[5],
   TFIR |-> p[6], uFIR |-> p[7], TNIR |-> p[8], uNIR |-> p[9], verbose |-> p[10]]

\* value * unit
Quantity(v, unit) == [val |-> v, unit |-> unit]

\* names calc can resolve: its parameters and locals, and the module globals
CalcLocals ==
  {"self", "p", "x", "xhi", "index", "ref", "ampl", "cutoff", "beta", "TFIR",
   "uFIR", "TNIR", "uNIR", "verbose", "outspec", "pdist", "seedspec", "ic",
   "model", "photons"}
ModuleGlobals ==
  {"np", "u", "Parameter", "tinyval", "ArithmeticModel", "modelCacher1d", "eV",
   "models", "trapz_loglog", "_mergex", "InverseCompton"}
Bound(name) == name \in CalcLocals \cup ModuleGlobals

\* attributes of astropy.units the two files use; the unit names are
\* case-sensitive: electronvolt is eV
UnitsAttrs == {"keV", "TeV", "eV", "K", "cm", "erg", "kpc", "Unit"}
HasUnit(name) == name \in UnitsAttrs

\* a slip: the cutoff form whatever the cutoff
MakePdistAlwaysCutoff(p) ==
  LET a == Unpack(p)
  IN [kind |-> "ExponentialCutoffPowerLaw", ampl |-> Quantity(a.ampl, "1/eV"),
      ref |-> Quantity(a.ref, "TeV"), index |-> a.index,
      cutoff |-> Quantity(a.cutoff, "TeV"), beta |-> a.beta]

\* calc, lines 70-74: the particle distribution
MakePdist(p) ==
  LET a == Unpack(p)
  IN IF a.cutoff = 0
       THEN [kind |-> "PowerLaw", ampl |-> Quantity(a.ampl, "1/eV"),
             ref |-> Quantity(a.ref, "TeV"), index |-> a.index]
       ELSE [kind |-> "ExponentialCutoffPowerLaw",
             ampl |-> Quantity(a.ampl, "1/eV"),
             ref |-> Quantity(a.ref, "TeV"), index |-> a.index,
             cutoff |-> Quantity(a.cutoff, "TeV"), beta |-> a.beta]

\* symbolic results of the external numerics
FluxAt(e) == [flux_at |-> e]
Mul(e, f) == [op |-> "mul", e |-> e, f |-> f]
LinTrapz(lo, hi, flo, fhi) ==
  [op |-> "mul", e |-> [op |-> "sub", a |-> hi, b |-> lo],
   f |-> [op |-> "half_sum", a |-> fhi, b |-> flo]]
TrapzLoglog(f, x) == [op |-> "trapz_loglog", f |-> f, x |-> x]
Scale(a, obsflux, modflux) ==
  [op |-> "scale", ampl |-> a, obsflux |-> obsflux, modflux |-> modflux]
Deleted == [deleted |-> TRUE]

InitAdapter ==
  /\ pars = Defaults
  /\ g_pc = "idle" /\ g_dep = None /\ g_xlo = None /\ g_xhi = None
  /\ g_modflux = None
  /\ pc = "idle" /\ caller = "none" /\ c_p = None /\ c_x = None /\ c_xhi = None
  /\ outspec = None /\ built = <<>> /\ pdist = None /\ seedspec = None
  /\ ic = None /\ model = None /\ photons = None
  /\ ret = None /\ raised = "none" /\ printed = FALSE

Idle == prog = "sherpamod" /\ pc = "idle" /\ g_pc = "idle"

\* the framework sets a parameter value between calls
SetPar ==
  /\ Idle
  /\ \E i \in 1..Len(ParNames) : \E v \in ParDomain(ParNames[i]) :
       /\ v # pars[ParNames[i]]
       /\ pars' = [pars EXCEPT ![ParNames[i]] = v]
  /\ UNCHANGED <<prog, mvars, gvars, cvars, svars>>

\* the inputs of a call: energies x and, for a binned call, upper edges xhi
Energies == Arrays(1..MaxE, MaxLen)
UpperEdges(x) == {None} \cup {Arr(h) : h \in ArraysOfLen(1..MaxE, Len(x))}

\* a slip: the exception swallowed and an empty result returned
RaiseCaught(kind) ==
  /\ raised' = kind
  /\ pc' = "done"
  /\ ret' = Arr(<<>>)
  /\ g_pc' = IF caller = "guess" THEN "modflux" ELSE g_pc

\* an exception raised inside calc: nothing catches it, in calc or in guess
Raise(kind) ==
  /\ raised' = kind
  /\ pc' = "fault"
  /\ ret' = ret
  /\ g_pc' = IF caller = "guess" THEN "fault" ELSE g_pc

\* calc is entered by the framework: def calc(self,p,x,xhi=None), line 62
CallCalc ==
  /\ Idle
  /\ \E x \in Energies : \E xhi \in UpperEdges(x) :
       /\ c_p' = ParVector(pars)
       /\ c_x' = Arr(x)
       /\ c_xhi' = xhi
  /\ caller' = "sherpa"
  /\ pc' = "outspec"
  /\ UNCHANGED <<prog, mvars, pars, gvars, outspec, built, pdist, seedspec, ic,
                 model, photons, ret, raised, printed, svars>>

\* a step of calc that goes on to `next`
Continue(next) ==
  /\ pc' = next
  /\ ret' = ret
  /\ raised' = raised
  /\ g_pc' = g_pc

\* what no step of calc touches
CalcFrame ==
  UNCHANGED <<prog, mvars, pars, g_dep, g_xlo, g_xhi, g_modflux, caller, c_p,
              c_x, c_xhi, svars>>

\* lines 64-68: the output energies.  Unbinned: x * u.keV.  Binned: the
\* argument of _mergex(xlo,xhi) names xlo, which calc does not bind (its
\* parameter is x), so evaluating it raises NameError before _mergex runs.
CalcOutspec ==
  /\ prog = "sherpamod" /\ pc = "outspec"
  /\ \/ /\ c_xhi = None
        /\ outspec' = Quantity(c_x.arr, "keV")
        /\ Continue("pdist")
     \/ /\ c_xhi = None
        /\ outspec' = outspec
        /\ Raise("LibraryError")
     \/ /\ c_xhi # None
        /\ ~Bound("xlo")
        /\ outspec' = outspec
        /\ Raise("NameError")
  /\ UNCHANGED <<built, pdist, seedspec, ic, model, photons, printed>>
  /\ CalcFrame

\* lines 70-74: models.PowerLaw(...) or models.ExponentialCutoffPowerLaw(...)
CalcPdist ==
  /\ prog = "sherpamod" /\ pc = "pdist"
  /\ \/ /\ pdist' = MakePdist(c_p)
        /\ built' = Append(built, MakePdist(c_p))
        /\ Continue("seed")
     \/ /\ UNCHANGED <<pdist, built>>
        /\ Raise("LibraryError")
  /\ UNCHANGED <<outspec, seedspec, ic, model, photons, printed>>
  /\ CalcFrame

\* one seed photon field entry
CMB == [name |-> "CMB"]
Blackbody(name, T, dens) ==
  [name |-> name, T |-> Quantity(T, "K"), u |-> Quantity(dens, "ev/cm3")]

\* lines 76-81: seedspec.  Each blackbody entry multiplies by u.ev, which
\* astropy.units does not define: building the entry raises AttributeError.
CalcSeed ==
  /\ prog = "sherpamod" /\ pc = "seed"
  /\ LET a == Unpack(c_p)
         s0 == <<CMB>>
         s1 == IF a.uFIR > 0
                 THEN Append(s0, Blackbody("FIR", a.TFIR, a.uFIR)) ELSE s0
         s2 == IF a.uNIR > 0
                 THEN Append(s1, Blackbody("NIR", a.TNIR, a.uNIR)) ELSE s1
     IN IF a.uFIR > 0 /\ ~HasUnit("ev")
          THEN seedspec' = List(s0) /\ Raise("AttributeError")
          ELSE IF a.uNIR > 0 /\ ~HasUnit("ev")
                 THEN seedspec' = List(s1) /\ Raise("AttributeError")
                 ELSE seedspec' = List(s2) /\ Continue("ic")
  /\ UNCHANGED <<outspec, built, pdist, ic, model, photons, printed>>
  /\ CalcFrame

\* lines 83-84: models.InverseCompton(pdist, seed_photon_fields=seedspec, ...)
CalcIC ==
  /\ prog = "sherpamod" /\ pc = "ic"
  /\ \/ /\ ic' = [pdist |-> pdist, seed_photon_fields |-> seedspec,
                  log10gmin |-> 5, log10gmax |-> 10, ngamd |-> 100]
        /\ Continue("flux")
     \/ /\ ic' = ic
        /\ Raise("LibraryError")
  /\ UNCHANGED <<outspec, built, pdist, seedspec, model, photons, printed>>
  /\ CalcFrame

\* lines 86-88: model = ic.flux(outspec).to('1/(s cm2 keV)'); del ic
CalcFlux ==
  /\ prog = "sherpamod" /\ pc = "flux"
  /\ \/ /\ model' = Quantity([i \in 1..Len(outspec.val) |-> FluxAt(outspec.val[i])],
                             "1/(s cm2 keV)")
        /\ ic' = Deleted
        /\ Continue("photons")
     \/ /\ UNCHANGED <<model, ic>>
        /\ Raise("LibraryError")
  /\ UNCHANGED <<outspec, built, pdist, seedspec, photons, printed>>
  /\ CalcFrame

\* a slip: neighbour differences taken whether or not bins were given
PhotonsAlwaysBinned(hi, e, f) ==
  [n \in 1..(Len(e) - 1) |-> LinTrapz(e[n], e[n + 1], f[n], f[n + 1])]

\* lines 92-96: the photons per point (xhi is None) or per bin
Photons(hi, e, f) ==
  IF hi = None
    THEN [i \in 1..Len(e) |-> Mul(e[i], f[i])]
    ELSE [n \in 1..(Len(e) - 1) |-> LinTrapz(e[n], e[n + 1], f[n], f[n + 1])]

CalcPhotons ==
  /\ prog = "sherpamod" /\ pc = "photons"
  /\ \/ /\ photons' = Arr(Photons(c_xhi, outspec.val, model.val))
        /\ Continue("verbose")
     \/ /\ photons' = photons
        /\ Raise("LibraryError")
  /\ UNCHANGED <<outspec, built, pdist, seedspec, ic, model, printed>>
  /\ CalcFrame

\* lines 98-99: if verbose: print self.thawedpars, trapz_loglog(...).to(...)
CalcVerbose ==
  /\ prog = "sherpamod" /\ pc = "verbose"
  /\ LET a == Unpack(c_p)
     IN IF a.verbose # 0
          THEN \/ printed' = TRUE /\ Continue("return")
               \/ printed' = printed /\ Raise("LibraryError")
          ELSE printed' = printed /\ Continue("return")
  /\ UNCHANGED <<outspec, built, pdist, seedspec, ic, model, photons>>
  /\ CalcFrame

\* line 101: return photons (to the framework, or into guess at line 54)
CalcReturn ==
  /\ prog = "sherpamod" /\ pc = "return"
  /\ ret' = photons
  /\ pc' = "done"
  /\ g_pc' = IF caller = "guess" THEN "modflux" ELSE g_pc
  /\ UNCHANGED <<raised, outspec, built, pdist, seedspec, ic, model, photons,
                 printed>>
  /\ CalcFrame

\* ---------------------------------------------------------------- guess
\* the observed values handed to guess
DepVals == {1, 2}

\* a slip: the amplitude reset before the model is evaluated
CallGuessResetAmpl ==
  /\ Idle
  /\ \E x \in Energies : \E xhi \in UpperEdges(x) : \E d \in DepVals :
       /\ g_dep' = Arr([i \in 1..Len(x) |-> d])
       /\ g_xlo' = Arr(x)
       /\ g_xhi' = xhi
       /\ c_p' = ParVector(pars)
       /\ c_x' = Arr(x)
       /\ c_xhi' = xhi
  /\ pars' = [pars EXCEPT !.ampl = 1]
  /\ g_pc' = "calc"
  /\ caller' = "guess"
  /\ pc' = "outspec"
  /\ UNCHANGED <<prog, mvars, g_modflux, outspec, built, pdist, seedspec,
                 ic, model, photons, ret, raised, printed, svars>>

\* lines 51-54: xlo,xhi=args; model=self.calc([p.val for p in self.pars],xlo,xhi)
CallGuess ==
  /\ Idle
  /\ \E x \in Energies : \E xhi \in UpperEdges(x) : \E d \in DepVals :
       /\ g_dep' = Arr([i \in 1..Len(x) |-> d])
       /\ g_xlo' = Arr(x)
       /\ g_xhi' = xhi
       /\ c_p' = ParVector(pars)
       /\ c_x' = Arr(x)
       /\ c_xhi' = xhi
  /\ g_pc' = "calc"
  /\ caller' = "guess"
  /\ pc' = "outspec"
  /\ UNCHANGED <<prog, mvars, pars, g_modflux, outspec, built, pdist, seedspec,
                 ic, model, photons, ret, raised, printed, svars>>

\* line 55: modflux=trapz_loglog(model,xlo)
GuessModflux ==
  /\ prog = "sherpamod" /\ g_pc = "modflux"
  /\ \/ /\ g_modflux' = TrapzLoglog(ret.arr, g_xlo.arr)
        /\ g_pc' = "scale"
        /\ raised' = raised
     \/ /\ g_modflux' = g_modflux
        /\ g_pc' = "fault"
        /\ raised' = "LibraryError"
  /\ UNCHANGED <<prog, mvars, pars, g_dep, g_xlo, g_xhi, pc, caller, c_p, c_x,
                 c_xhi, outspec, built, pdist, seedspec, ic, model, photons,
                 ret, printed, svars>>

\* lines 56-57: obsflux=trapz_loglog(dep*(xhi-xlo),xlo);
\*              self.ampl.set(self.ampl.val*obsflux/modflux)
\* With xhi None the difference xhi-xlo raises TypeError.
GuessScale ==
  /\ prog = "sherpamod" /\ g_pc = "scale"
  /\ \E ok \in BOOLEAN :
       IF g_xhi = None
         THEN /\ ok
              /\ g_pc' = "fault" /\ raised' = "TypeError" /\ pars' = pars
         ELSE IF ok
           THEN LET width == [i \in 1..Len(g_xlo.arr) |->
                                 g_xhi.arr[i] - g_xlo.arr[i]]
                    obsflux == TrapzLoglog(
                                 [i \in 1..Len(width) |-> Mul(g_dep.arr[i], width[i])],
                                 g_xlo.arr)
                IN /\ pars' = [pars EXCEPT
                                 !.ampl = Scale(pars.ampl, obsflux, g_modflux)]
                   /\ g_pc' = "done" /\ raised' = raised
           ELSE g_pc' = "fault" /\ raised' = "LibraryError" /\ pars' = pars
  /\ UNCHANGED <<prog, mvars, g_dep, g_xlo, g_xhi, g_modflux, pc, caller, c_p,
                 c_x, c_xhi, outspec, built, pdist, seedspec, ic, model,
                 photons, ret, printed, svars>>

\* ------------------------------------------------ ElectronIC (the script)
\* np.logspace(11,15,100): the number of electron energies
NElec == 100

RECURSIVE Pow10(_)
Pow10(n) == IF n = 0 THEN 1 ELSE 10 * Pow10(n - 1)

\* np.logspace(start, stop, num): energy i is 10^(log10_num / log10_den)
Logspace(start, stop, num) ==
  [i \in 1..num |->
     [log10_num |-> start * (num - 1) + (stop - start) * (i - 1),
      log10_den |-> num - 1]]

\* parameter vectors the sampler proposes: (log10(We), index, log10(cutoff))
ParsDomain == {<<a, b, c>> : a \in 0..MaxLog, b \in {2, 3}, c \in 0..MaxLog}

InitScript ==
  /\ s_pc = "read" /\ sampler = None /\ files = {} /\ log = <<>> /\ evals = 0
  /\ e_pc = "idle" /\ e_pars = None /\ We = None /\ alpha = None
  /\ e_cutoff = None /\ ECPL = None /\ IC = None /\ e_model = None
  /\ e_ret = None /\ e_raised = "none"

\* an exception inside ElectronIC: not caught there, so it leaves ElectronIC
\* without a value and unwinds through run_sampler into the script
RaiseInModel(kind) ==
  /\ e_raised' = kind
  /\ e_pc' = "fault"
  /\ e_ret' = e_ret
  /\ s_pc' = "fault"
  /\ evals' = evals

ModelContinue(next) ==
  /\ e_pc' = next
  /\ e_ret' = e_ret
  /\ e_raised' = e_raised
  /\ s_pc' = s_pc
  /\ evals' = evals

ModelFrame == UNCHANGED <<prog, mvars, avars, sampler, files, log, e_pars>>

\* run_sampler calls model(pars, data): ElectronIC is entered
SamplerEval ==
  /\ prog = "script" /\ s_pc = "sampling"
  /\ e_pc \in {"idle", "done"}
  /\ evals < MaxEvals
  /\ e_pars' \in {Arr(q) : q \in ParsDomain}
  /\ e_pc' = "units"
  /\ We' = None /\ alpha' = None /\ e_cutoff' = None /\ ECPL' = None
  /\ IC' = None /\ e_model' = None /\ e_ret' = None
  /\ UNCHANGED <<prog, mvars, avars, s_pc, sampler, files, log, evals, e_raised>>

\* a slip: the index exponentiated like its neighbours
UnitsAllLog(q) ==
  [We |-> Quantity(Pow10(q[1]), "erg"),
   alpha |-> Pow10(q[2]),
   e_cutoff |-> Quantity(Pow10(q[3]), "TeV")]

\* lines 19-21: We = 10**pars[0] * u.erg; alpha = pars[1];
\*              e_cutoff = (10**pars[2])*u.TeV
Units(q) ==
  [We |-> Quantity(Pow10(q[1]), "erg"),
   alpha |-> q[2],
   e_cutoff |-> Quantity(Pow10(q[3]), "TeV")]

ModelUnits ==
  /\ prog = "script" /\ e_pc = "units"
  /\ \/ /\ We' = Units(e_pars.arr).We
        /\ alpha' = Units(e_pars.arr).alpha
        /\ e_cutoff' = Units(e_pars.arr).e_cutoff
        /\ ModelContinue("build")
     \/ /\ UNCHANGED <<We, alpha, e_cutoff>>
        /\ RaiseInModel("LibraryError")
  /\ UNCHANGED <<ECPL, IC, e_model>>
  /\ ModelFrame

\* lines 24-26: ECPL, IC, IC.set_We(We,Eemin=1*u.TeV)
ModelBuild ==
  /\ prog = "script" /\ e_pc = "build"
  /\ \/ LET d == [kind |-> "ExponentialCutoffPowerLaw",
                  ampl |-> Quantity(1, "1/eV"), e_0 |-> Quantity(10, "TeV"),
                  alpha |-> alpha, e_cutoff |-> e_cutoff]
        IN /\ ECPL' = d
           /\ IC' = [pdist |-> d, seed_photon_fields |-> List(<<CMB>>),
                     We |-> We, Eemin |-> Quantity(1, "TeV")]
           /\ ModelContinue("flux")
     \/ /\ UNCHANGED <<ECPL, IC>>
        /\ RaiseInModel("LibraryError")
  /\ UNCHANGED <<We, alpha, e_cutoff, e_model>>
  /\ ModelFrame

\* line 30: model = IC.flux(data,distance=2.0*u.kpc).to(data['flux'].unit)
ModelFlux ==
  /\ prog = "script" /\ e_pc = "flux"
  /\ \/ /\ e_model' = [flux_of |-> IC, at |-> "data",
                       distance |-> Quantity(2, "kpc"), unit |-> "data.flux.unit"]
        /\ ModelContinue("sample")
     \/ /\ e_model' = e_model
        /\ RaiseInModel("LibraryError")
  /\ UNCHANGED <<We, alpha, e_cutoff, ECPL, IC>>
  /\ ModelFrame

\* lines 33-39: elec_energy, nelec = ECPL(elec_energy);
\*              return model, (elec_energy,nelec)
ModelReturn ==
  /\ prog = "script" /\ e_pc = "sample"
  /\ \/ LET elec_energy == Quantity(Logspace(11, 15, NElec), "eV")
            nelec == [i \in 1..Len(elec_energy.val) |->
                        [eval |-> "ECPL", at |-> elec_energy.val[i]]]
        IN /\ e_ret' = Tuple(<<e_model, Tuple(<<elec_energy, nelec>>)>>)
           /\ e_pc' = "done"
           /\ evals' = evals + 1
           /\ UNCHANGED <<e_raised, s_pc>>
     \/ RaiseInModel("LibraryError")
  /\ UNCHANGED <<We, alpha, e_cutoff, ECPL, IC, e_model>>
  /\ ModelFrame

\* ------------------------------------------------- the script's sequence
\* the steps of the main sequence, in the order of the source
MainOrder == <<"run_sampler", "pool_none", "pickle", "plots", "table">>

PickleFile == "CrabNebula_IC_We_sampler.pickle"
PlotFiles == "CrabNebula_IC_We plots"
TableFile == "CrabNebula_IC_We table"

ScriptFrame == UNCHANGED <<prog, mvars, avars, evals, evars>>

\* a step of the script fails: the exception is uncaught, the script ends
ScriptFault ==
  /\ s_pc' = "fault"
  /\ UNCHANGED <<sampler, files, log>>

\* line 9: data=ascii.read(...)
ReadData ==
  /\ prog = "script" /\ s_pc = "read"
  /\ \/ s_pc' = "call_sampler" /\ UNCHANGED <<sampler, files, log>>
     \/ ScriptFault
  /\ ScriptFrame

\* lines 58-64: naima.run_sampler(...) is entered
RunSamplerCall ==
  /\ prog = "script" /\ s_pc = "call_sampler"
  /\ s_pc' = "sampling"
  /\ UNCHANGED <<sampler, files, log>>
  /\ ScriptFrame

\* lines 63-64: run_sampler returns sampler,pos; threads=4 gives it a pool
RunSamplerReturn ==
  /\ prog = "script" /\ s_pc = "sampling"
  /\ e_pc = "done"
  /\ \/ /\ sampler' = [pool |-> [threads |-> 4], nblobs |-> evals]
        /\ log' = Append(log, "run_sampler")
        /\ s_pc' = "import"
        /\ files' = files
     \/ ScriptFault
  /\ ScriptFrame

\* lines 67-68: the imports of six and cPickle
ImportPickle ==
  /\ prog = "script" /\ s_pc = "import"
  /\ \/ s_pc' = "clear_pool" /\ UNCHANGED <<sampler, files, log>>
     \/ ScriptFault
  /\ ScriptFrame

\* a slip: the pool kept
ClearPoolSkipped ==
  /\ prog = "script" /\ s_pc = "clear_pool"
  /\ log' = Append(log, "pool_none")
  /\ s_pc' = "pickle"
  /\ UNCHANGED <<sampler, files>>
  /\ ScriptFrame

\* line 69: sampler.pool=None
ClearPool ==
  /\ prog = "script" /\ s_pc = "clear_pool"
  /\ sampler' = [sampler EXCEPT !.pool = None]
  /\ log' = Append(log, "pool_none")
  /\ s_pc' = "pickle"
  /\ files' = files
  /\ ScriptFrame

\* line 70: cPickle.dump(sampler,open(...,'wb'))
PickleSampler ==
  /\ prog = "script" /\ s_pc = "pickle"
  /\ \/ /\ files' = files \cup {[name |-> PickleFile, content |-> sampler]}
        /\ log' = Append(log, "pickle")
        /\ s_pc' = "plots"
        /\ sampler' = sampler
     \/ ScriptFault
  /\ ScriptFrame

\* lines 74-75: naima.save_diagnostic_plots(...)
SavePlots ==
  /\ prog = "script" /\ s_pc = "plots"
  /\ \/ /\ files' = files \cup {[name |-> PlotFiles, content |-> "plots"]}
        /\ log' = Append(log, "plots")
        /\ s_pc' = "table"
        /\ sampler' = sampler
     \/ ScriptFault
  /\ ScriptFrame

\* line 76: naima.save_results_table(...)
SaveTable ==
  /\ prog = "script" /\ s_pc = "table"
  /\ \/ /\ files' = files \cup {[name |-> TableFile, content |-> "table"]}
        /\ log' = Append(log, "table")
        /\ s_pc' = "done"
        /\ sampler' = sampler
     \/ ScriptFault
  /\ ScriptFrame

\* ------------------------------------------------------- specification
Init ==
  /\ prog \in {"mergex", "sherpamod", "script"}
  /\ IF prog = "mergex"
       THEN InitMergex
       ELSE /\ m_xlo = <<2>> /\ m_xhi = <<4>> /\ m_mid = FALSE /\ m_out = None
  /\ InitAdapter
  /\ InitScript

Next ==
  \/ ApplyMergex
  \/ SetPar \/ CallCalc \/ CallGuess
  \/ CalcOutspec \/ CalcPdist \/ CalcSeed \/ CalcIC \/ CalcFlux
  \/ CalcPhotons \/ CalcVerbose \/ CalcReturn
  \/ GuessModflux \/ GuessScale
  \/ SamplerEval \/ ModelUnits \/ ModelBuild \/ ModelFlux \/ ModelReturn
  \/ ReadData \/ RunSamplerCall \/ RunSamplerReturn \/ ImportPickle
  \/ ClearPool \/ PickleSampler \/ SavePlots \/ SaveTable

Spec == Init /\ [][Next]_vars

\* ---------------------------------------------------------------- claims
Range(f) == {f[i] : i \in DOMAIN f}

\* a binned call of calc that has ended and that no library failure interrupted
BinnedCallEnded ==
  /\ prog = "sherpamod"
  /\ c_xhi # None
  /\ pc \in {"done", "fault"}
  /\ raised # "LibraryError"

\* the boundaries a binned call is to merge: the lower edges, then the last
\* upper edge
MergedEdges == c_x.arr \o <<c_xhi.arr[Len(c_xhi.arr)]>>

\* C1: calc called with both edge arrays (N >= 1 bins) merges them into N+1
\* boundaries and completes, returning exactly N values, one per bin.
C1_BinnedCalcCompletes ==
  BinnedCallEnded =>
    /\ pc = "done"
    /\ outspec = Quantity(MergedEdges, "keV")
    /\ Len(ret.arr) = Len(c_x.arr)

\* the steps of calc that follow the construction of the particle distribution
AfterPdist == {"seed", "ic", "flux", "photons", "verbose", "return", "done"}

\* C2: the particle distribution calc builds is a plain power law (ampl, ref,
\* index) if and only if cutoff is exactly 0, and otherwise an exponential-
\* cutoff power law (ampl, ref, index, cutoff, beta); a call that reaches the
\* dispatch builds exactly one distribution, and no call builds more.
C2_PdistDispatch ==
  prog = "sherpamod" =>
    /\ Len(built) <= 1
    /\ pc \in AfterPdist => Len(built) = 1 /\ pdist = built[1]
    /\ pdist # None =>
         /\ pdist.kind = "PowerLaw" <=> pars.cutoff = 0
         /\ pars.cutoff = 0 =>
              pdist = [kind |-> "PowerLaw",
                       ampl |-> [val |-> pars.ampl, unit |-> "1/eV"],
                       ref |-> [val |-> pars.ref, unit |-> "TeV"],
                       index |-> pars.index]
         /\ pars.cutoff # 0 =>
              pdist = [kind |-> "ExponentialCutoffPowerLaw",
                       ampl |-> [val |-> pars.ampl, unit |-> "1/eV"],
                       ref |-> [val |-> pars.ref, unit |-> "TeV"],
                       index |-> pars.index,
                       cutoff |-> [val |-> pars.cutoff, unit |-> "TeV"],
                       beta |-> pars.beta]

\* a completed call with a non-zero cutoff, and its cutoff power law
C2_Witness ==
  /\ pc = "done"
  /\ pars.cutoff = 1
  /\ pdist # None
  /\ pdist.kind = "ExponentialCutoffPowerLaw"

\* the names of the seed photon fields the parameters ask for
WantedSeedNames ==
  <<"CMB">> \o (IF pars.uFIR > 0 THEN <<"FIR">> ELSE <<>>)
            \o (IF pars.uNIR > 0 THEN <<"NIR">> ELSE <<>>)

\* C3: the seed photon field list starts with CMB, holds an FIR blackbody
\* (TFIR, uFIR) iff uFIR > 0 and an NIR blackbody (TNIR, uNIR) iff uNIR > 0, in
\* that order, and for every uFIR, uNIR the list is built and the scattering
\* model constructed from it (a call that got as far as the list, and that no
\* library failure interrupted, has both).
C3_SeedFieldsBuilt ==
  (/\ prog = "sherpamod"
   /\ pdist # None
   /\ pc \notin {"seed", "ic"}
   /\ raised # "LibraryError") =>
    /\ seedspec # None
    /\ [i \in 1..Len(seedspec.list) |-> seedspec.list[i].name] = WantedSeedNames
    /\ \A i \in 1..Len(seedspec.list) :
         LET entry == seedspec.list[i]
         IN /\ entry.name = "FIR" =>
                 entry.T.val = pars.TFIR /\ entry.u.val = pars.uFIR
            /\ entry.name = "NIR" =>
                 entry.T.val = pars.TNIR /\ entry.u.val = pars.uNIR
    /\ ic # None

\* the integral, between two boundaries, of the power law through the flux at
\* each of them
LogLogBin(lo, hi) ==
  [op |-> "trapz_loglog", lo |-> lo, hi |-> hi,
   flo |-> [flux_at |-> lo], fhi |-> [flux_at |-> hi]]

\* C4: for a binned call the value returned for bin n is the trapezoidal
\* integral in log-log space of the model flux between merged boundaries n and
\* n+1, for every bin n.
C4_BinsIntegratedLogLog ==
  BinnedCallEnded =>
    /\ ret # None
    /\ ret.arr = [n \in 1..Len(c_x.arr) |->
                    LogLogBin(MergedEdges[n], MergedEdges[n + 1])]

\* _mergex has been applied with its default midpoints=False
Merged == prog = "mergex" /\ m_out # None /\ ~m_mid

Contiguous == \A n \in 2..Len(m_xlo) : m_xlo[n] = m_xhi[n - 1]

HoldsEveryEdge ==
  \A n \in 1..Len(m_xlo) :
    m_xlo[n] \in Range(m_out.arr) /\ m_xhi[n] \in Range(m_out.arr)

\* bins in ascending order that do not overlap
AscendingBins ==
  /\ \A n \in 1..Len(m_xlo) : m_xlo[n] < m_xhi[n]
  /\ \A n \in 2..Len(m_xlo) : m_xhi[n - 1] <= m_xlo[n]

\* C5 as stated: _mergex returns xlo followed by xhi[N-1], and the result
\* holds every input edge if and only if the bins are contiguous.
C5_Original ==
  Merged =>
    /\ m_out.arr = m_xlo \o <<m_xhi[Len(m_xhi)]>>
    /\ HoldsEveryEdge <=> Contiguous

\* C5 amended: _mergex returns xlo followed by xhi[N-1]; the result holds
\* every input edge whenever the bins are contiguous, and for ascending
\* non-overlapping bins only then.
C5_Amended ==
  Merged =>
    /\ m_out.arr = m_xlo \o <<m_xhi[Len(m_xhi)]>>
    /\ Len(m_out.arr) = Len(m_xlo) + 1
    /\ Contiguous => HoldsEveryEdge
    /\ (AscendingBins /\ HoldsEveryEdge) => Contiguous

\* two ascending bins with a gap: the interior upper edge is dropped
C5_Witness ==
  /\ Merged
  /\ Len(m_xlo) = 2
  /\ AscendingBins
  /\ ~Contiguous
  /\ m_xhi[1] \notin Range(m_out.arr)

\* C6: ElectronIC takes We = 10**pars[0] and the cutoff energy = 10**pars[2],
\* uses pars[1] unchanged as the index, and returns the pair of the model flux
\* at the data energies and the sample (100 electron energies, the distribution
\* at each of them).
C6_ElectronICScaling ==
  (prog = "script" /\ e_pc = "done") =>
    /\ We = [val |-> 10 ^ e_pars.arr[1], unit |-> "erg"]
    /\ IC.We = We
    /\ ECPL.alpha = e_pars.arr[2]
    /\ ECPL.e_cutoff = [val |-> 10 ^ e_pars.arr[3], unit |-> "TeV"]
    /\ IC.pdist = ECPL
    /\ Len(e_ret.tuple) = 2
    /\ e_ret.tuple[1] = e_model
    /\ e_model.flux_of = IC /\ e_model.at = "data"
    /\ LET blob == e_ret.tuple[2].tuple
       IN /\ Len(blob) = 2
          /\ blob[1].unit = "eV"
          /\ Len(blob[1].val) = 100
          /\ Len(blob[2]) = 100
          /\ \A i \in 1..100 : blob[2][i].at = blob[1].val[i]
          /\ blob[1].val[1] = [log10_num |-> 11 * 99, log10_den |-> 99]
          /\ blob[1].val[100] = [log10_num |-> 15 * 99, log10_den |-> 99]

\* an evaluation that has returned, with three different parameter values
C6_Witness ==
  /\ prog = "script"
  /\ e_pc = "done"
  /\ e_pars = Arr(<<2, 3, 1>>)
  /\ e_ret # None

\* C7: neither ElectronIC nor calc nor guess catches a failure: once a unit
\* conversion or library call in one of them has failed, the operation has
\* ended in that fault, the fault has reached the caller, and there is no
\* result (calc returns nothing, guess has set no amplitude, ElectronIC
\* returns nothing and run_sampler is left).
C7_FaultsPropagate ==
  /\ (prog = "sherpamod" /\ raised # "none") =>
       /\ \/ pc = "fault" /\ ret = None
          \/ caller = "guess" /\ pc = "done" /\ g_pc = "fault"
       /\ caller = "guess" => g_pc = "fault" /\ ParVector(pars) = c_p
  /\ (prog = "script" /\ e_raised # "none") =>
       /\ e_pc = "fault"
       /\ e_ret = None
       /\ s_pc = "fault"

\* a library failure in the middle of calc, after the distribution was built
C7_Witness ==
  /\ prog = "sherpamod"
  /\ raised = "LibraryError"
  /\ pc = "fault"
  /\ pdist # None
  /\ ret = None

IsPrefix(s, t) == Len(s) <= Len(t) /\ \A i \in 1..Len(s) : s[i] = t[i]

\* the files the steps of `log` have written
FileNames == {f.name : f \in files}
WrittenBy(l) ==
  {n \in {PickleFile, PlotFiles, TableFile} :
     \/ n = PickleFile /\ "pickle" \in Range(l)
     \/ n = PlotFiles /\ "plots" \in Range(l)
     \/ n = TableFile /\ "table" \in Range(l)}

\* C8: the script's steps happen in the order run_sampler returns, pool set to
\* None, sampler pickled, plots saved, table saved; the pickled sampler never
\* holds a pool; and once a step has failed no later step has run (the files
\* are those of the steps done before it).
C8_MainOrder ==
  prog = "script" =>
    /\ IsPrefix(log, MainOrder)
    /\ FileNames = WrittenBy(log)
    /\ \A f \in files : f.name = PickleFile => f.content.pool = None
    /\ s_pc = "done" => log = MainOrder
    /\ s_pc = "fault" => Len(log) < Len(MainOrder)

\* the whole sequence has run
C8_Witness ==
  /\ prog = "script"
  /\ s_pc = "done"
  /\ log = MainOrder
  /\ Cardinality(files) = 3

NineOthers ==
  {"index", "ref", "cutoff", "beta", "TFIR", "uFIR", "TNIR", "uNIR", "verbose"}

\* C9: guess changes no parameter other than ampl, whether it completes or
\* fails; ampl changes only when guess completes, to old ampl x obsflux /
\* modflux, and is unchanged when the evaluation inside guess fails.  (c_p is
\* the list of parameter values taken when guess was entered.)
C9_GuessFrame ==
  (prog = "sherpamod" /\ g_pc # "idle") =>
    /\ \A i \in 1..Len(ParNames) :
         ParNames[i] \in NineOthers => pars[ParNames[i]] = c_p[i]
    /\ g_pc # "done" => pars.ampl = c_p[3]
    /\ g_pc = "done" =>
         /\ pars.ampl.op = "scale"
         /\ pars.ampl.ampl = c_p[3]
         /\ pars.ampl.modflux = g_modflux

\* guess has failed in its model evaluation, with parameters off their defaults
C9_Witness ==
  /\ prog = "sherpamod"
  /\ g_pc = "fault"
  /\ raised = "NameError"
  /\ pars.ampl = 2
  /\ pars.cutoff = 1

\* C10: called without upper edges, calc merges nothing: the energies are used
\* as given and the result has one value per energy, that energy times the
\* model flux at it, so as many values as energies.
C10_UnbinnedPointwise ==
  (prog = "sherpamod" /\ caller # "none" /\ c_xhi = None) =>
    /\ outspec # None => outspec = [val |-> c_x.arr, unit |-> "keV"]
    /\ pc = "done" =>
         /\ Len(ret.arr) = Len(c_x.arr)
         /\ \A i \in 1..Len(c_x.arr) :
              ret.arr[i] = [op |-> "mul", e |-> c_x.arr[i],
                            f |-> [flux_at |-> c_x.arr[i]]]

\* an unbinned call over two different energies has returned
C10_Witness ==
  /\ prog = "sherpamod"
  /\ pc = "done"
  /\ c_xhi = None
  /\ c_x # None
  /\ Len(c_x.arr) = 2
  /\ c_x.arr[1] # c_x.arr[2]

====
